---- MODULE Spec2Model ----
(***************************************************************************)
(* The trie of rjkweiss/trie-visualizer (src/unnamed/part_001: TrieNode    *)
(* and Trie) as a state machine.                                           *)
(*                                                                         *)
(* A JavaScript string is a sequence of UTF-16 code units.  insert,        *)
(* searchWord and startsWith walk a word with `for (const char of word)`,  *)
(* which yields one string per code point (a surrogate pair comes out as   *)
(* ONE two-unit string); the helper of delete reads `word[index]` for      *)
(* index < word.length, which yields one string per code unit.  Both       *)
(* iterations are modelled as the code performs them.                      *)
(*                                                                         *)
(* A TrieNode is identified by the sequence of Map keys leading to it      *)
(* from the root (a tree: every node has exactly one such path).  A key    *)
(* is a string, i.e. a sequence of code units.                             *)
(***************************************************************************)
EXTENDS Naturals, Sequences, FiniteSets, TLC

\* ------------------------------------------------------------------ bounds

\* Longest input word, in UTF-16 code units (its `length`).
MaxLen == 3
\* Most insert/delete calls in one run.
MaxOps == 3

\* ------------------------------------------------------- strings (UTF-16)

\* The two code units of one character outside the Basic Multilingual Plane.
HighSurrogate == "hi"
LowSurrogate == "lo"

\* Characters a caller may pass: a BMP letter, and one character outside the
\* BMP (such as an emoji), which UTF-16 stores as a surrogate pair.
Chars == {"a", "U"}

\* The UTF-16 code units of one character.
Encode(c) == IF c = "U" THEN <<HighSurrogate, LowSurrogate>> ELSE <<c>>

RECURSIVE EncodeAll(_)
EncodeAll(cs) == IF cs = <<>> THEN <<>> ELSE Encode(Head(cs)) \o EncodeAll(Tail(cs))

\* The input strings: every string of these characters whose length is at
\* most MaxLen.
Words ==
    {w \in {EncodeAll(cs) : cs \in UNION {[1..n -> Chars] : n \in 0..MaxLen}} :
        Len(w) <= MaxLen}

\* String.prototype[Symbol.iterator], used by `for (const char of word)`:
\* a high surrogate followed by a low surrogate is one two-unit string,
\* any other code unit is a one-unit string.
RECURSIVE StringIterator(_)
StringIterator(word) ==
    IF word = <<>> THEN <<>>
    ELSE IF /\ Len(word) >= 2
            /\ word[1] = HighSurrogate
            /\ word[2] = LowSurrogate
         THEN <<SubSeq(word, 1, 2)>> \o StringIterator(SubSeq(word, 3, Len(word)))
         ELSE <<SubSeq(word, 1, 1)>> \o StringIterator(Tail(word))

\* word[index] (0-based): the one-unit string at code unit `index`.
CharAt(word, index) == <<word[index + 1]>>

\* ------------------------------------------------------------- TrieNode

\* The root node: the empty path.
root == <<>>

\* new TrieNode(): no children, not the end of a word.
TrieNode == [children |-> {}, isEndOfWord |-> FALSE]

\* new Trie(): the root alone.  A trie value t gives, for every node
\* reachable from the root, the keys of its children Map and its flag.
NewTrie ==
    [children |-> (root :> TrieNode.children),
     isEndOfWord |-> (root :> TrieNode.isEndOfWord)]

Nodes(t) == DOMAIN t.children

\* p is an initial segment of q (paths of keys).
IsPathPrefix(p, q) == Len(p) <= Len(q) /\ SubSeq(q, 1, Len(p)) = p

\* node.children = new Map([[char, new TrieNode()]]): the new child replaces
\* the whole Map, so the node's other children go.
SetChildAlone(t, node, char) ==
    LET child == Append(node, char)
        keep == {n \in Nodes(t) : n = node \/ ~IsPathPrefix(node, n)}
    IN [children |->
            (child :> TrieNode.children)
                @@ [n \in keep |-> IF n = node THEN {char} ELSE t.children[n]],
        isEndOfWord |->
            (child :> TrieNode.isEndOfWord) @@ [n \in keep |-> t.isEndOfWord[n]]]

\* node.children.set(char, new TrieNode())
SetChild(t, node, char) ==
    LET child == Append(node, char)
    IN [children |->
            (child :> TrieNode.children)
                @@ [t.children EXCEPT ![node] = @ \cup {char}],
        isEndOfWord |-> (child :> TrieNode.isEndOfWord) @@ t.isEndOfWord]

\* node.children.delete(char): the edge goes, and with it everything that
\* was reachable only through it.
DeleteChild(t, node, char) ==
    LET keep == {n \in Nodes(t) : ~IsPathPrefix(Append(node, char), n)}
    IN [children |->
            [n \in keep |->
                IF n = node THEN t.children[n] \ {char} ELSE t.children[n]],
        isEndOfWord |-> [n \in keep |-> t.isEndOfWord[n]]]

\* ----------------------------------------------------------------- Trie

\* insert without `currentNode.isEndOfWord = true`.
RECURSIVE insertLoopNoMark(_, _, _)
insertLoopNoMark(t, currentNode, chars) ==
    IF chars = <<>>
    THEN t
    ELSE LET char == Head(chars)
             t1 == IF char \notin t.children[currentNode]
                   THEN SetChild(t, currentNode, char)
                   ELSE t
         IN insertLoopNoMark(t1, Append(currentNode, char), Tail(chars))

\* insert ending with `currentNode.isEndOfWord = !currentNode.isEndOfWord`.
RECURSIVE insertLoopToggle(_, _, _)
insertLoopToggle(t, currentNode, chars) ==
    IF chars = <<>>
    THEN [t EXCEPT !.isEndOfWord[currentNode] = ~@]
    ELSE LET char == Head(chars)
             t1 == IF char \notin t.children[currentNode]
                   THEN SetChild(t, currentNode, char)
                   ELSE t
         IN insertLoopToggle(t1, Append(currentNode, char), Tail(chars))

\* The loop of insert: create the missing child, advance, and mark the end
\* of the word after the last character.
RECURSIVE insertLoop(_, _, _)
insertLoop(t, currentNode, chars) ==
    IF chars = <<>>
    THEN [t EXCEPT !.isEndOfWord[currentNode] = TRUE]
    ELSE LET char == Head(chars)
             t1 == IF char \notin t.children[currentNode]
                   THEN SetChild(t, currentNode, char)
                   ELSE t
         IN insertLoop(t1, Append(currentNode, char), Tail(chars))

\* insert beginning with `if (!word) return;`.
insertSkipsEmpty(t, word) ==
    IF word = <<>> THEN t ELSE insertLoop(t, root, StringIterator(word))

insert(t, word) == insertLoop(t, root, StringIterator(word))

RECURSIVE searchLoop(_, _, _)
searchLoop(t, currentNode, chars) ==
    IF chars = <<>>
    THEN t.isEndOfWord[currentNode]
    ELSE IF Head(chars) \notin t.children[currentNode]
         THEN FALSE
         ELSE searchLoop(t, Append(currentNode, Head(chars)), Tail(chars))

searchWord(t, word) == searchLoop(t, root, StringIterator(word))

\* startsWith ending like searchWord, with `return currentNode.isEndOfWord`.
startsWithAsSearchWord(t, prefix) == searchWord(t, prefix)

RECURSIVE prefixLoop(_, _, _)
prefixLoop(t, currentNode, chars) ==
    IF chars = <<>>
    THEN TRUE
    ELSE IF Head(chars) \notin t.children[currentNode]
         THEN FALSE
         ELSE prefixLoop(t, Append(currentNode, Head(chars)), Tail(chars))

startsWith(t, prefix) == prefixLoop(t, root, StringIterator(prefix))

\* The helper with `node.children.delete(char)` outside `if (shouldDeleteChild)`.
RECURSIVE helperAlwaysUnlink(_, _, _, _)
helperAlwaysUnlink(t, node, word, index) ==
    IF index = Len(word)
    THEN IF ~t.isEndOfWord[node]
         THEN [trie |-> t, ret |-> FALSE]
         ELSE LET t1 == [t EXCEPT !.isEndOfWord[node] = FALSE]
              IN [trie |-> t1, ret |-> t1.children[node] = {}]
    ELSE LET char == CharAt(word, index)
         IN IF char \notin t.children[node]
            THEN [trie |-> t, ret |-> FALSE]
            ELSE LET r == helperAlwaysUnlink(t, Append(node, char), word, index + 1)
                 IN IF TRUE
                    THEN LET t2 == DeleteChild(r.trie, node, char)
                         IN [trie |-> t2,
                             ret |-> r.ret /\ t2.children[node] = {} /\ ~t2.isEndOfWord[node]]
                    ELSE [trie |-> r.trie, ret |-> FALSE]

\* The helper without `node.children.delete(char)`.
RECURSIVE helperNoUnlink(_, _, _, _)
helperNoUnlink(t, node, word, index) ==
    IF index = Len(word)
    THEN IF ~t.isEndOfWord[node]
         THEN [trie |-> t, ret |-> FALSE]
         ELSE LET t1 == [t EXCEPT !.isEndOfWord[node] = FALSE]
              IN [trie |-> t1, ret |-> t1.children[node] = {}]
    ELSE LET char == CharAt(word, index)
         IN IF char \notin t.children[node]
            THEN [trie |-> t, ret |-> FALSE]
            ELSE LET r == helperNoUnlink(t, Append(node, char), word, index + 1)
                 IN IF r.ret
                    THEN LET t2 == r.trie
                         IN [trie |-> t2,
                             ret |-> t2.children[node] = {} /\ ~t2.isEndOfWord[node]]
                    ELSE [trie |-> r.trie, ret |-> FALSE]

\* The helper unwinding with `return node.children.size === 0`, the test of
\* isEndOfWord left out.
RECURSIVE helperNoFlagTest(_, _, _, _)
helperNoFlagTest(t, node, word, index) ==
    IF index = Len(word)
    THEN IF ~t.isEndOfWord[node]
         THEN [trie |-> t, ret |-> FALSE]
         ELSE LET t1 == [t EXCEPT !.isEndOfWord[node] = FALSE]
              IN [trie |-> t1, ret |-> t1.children[node] = {}]
    ELSE LET char == CharAt(word, index)
         IN IF char \notin t.children[node]
            THEN [trie |-> t, ret |-> FALSE]
            ELSE LET r == helperNoFlagTest(t, Append(node, char), word, index + 1)
                 IN IF r.ret
                    THEN LET t2 == DeleteChild(r.trie, node, char)
                         IN [trie |-> t2,
                             ret |-> t2.children[node] = {}]
                    ELSE [trie |-> r.trie, ret |-> FALSE]

\* The helper returning false from the terminal node, so that nothing is pruned.
RECURSIVE helperKeepsLeaf(_, _, _, _)
helperKeepsLeaf(t, node, word, index) ==
    IF index = Len(word)
    THEN IF ~t.isEndOfWord[node]
         THEN [trie |-> t, ret |-> FALSE]
         ELSE LET t1 == [t EXCEPT !.isEndOfWord[node] = FALSE]
              IN [trie |-> t1, ret |-> FALSE]
    ELSE LET char == CharAt(word, index)
         IN IF char \notin t.children[node]
            THEN [trie |-> t, ret |-> FALSE]
            ELSE LET r == helperKeepsLeaf(t, Append(node, char), word, index + 1)
                 IN IF r.ret
                    THEN LET t2 == DeleteChild(r.trie, node, char)
                         IN [trie |-> t2,
                             ret |-> t2.children[node] = {} /\ ~t2.isEndOfWord[node]]
                    ELSE [trie |-> r.trie, ret |-> FALSE]

\* The helper of delete; the result is the trie it leaves and its return
\* value.  `if (!node) return false` never fires: the helper is entered
\* with the root and with children the caller has found in the Map.
RECURSIVE helper(_, _, _, _)
helper(t, node, word, index) ==
    IF index = Len(word)
    THEN IF ~t.isEndOfWord[node]
         THEN [trie |-> t, ret |-> FALSE]
         ELSE LET t1 == [t EXCEPT !.isEndOfWord[node] = FALSE]
              IN [trie |-> t1, ret |-> t1.children[node] = {}]
    ELSE LET char == CharAt(word, index)
         IN IF char \notin t.children[node]
            THEN [trie |-> t, ret |-> FALSE]
            ELSE LET r == helper(t, Append(node, char), word, index + 1)
                 IN IF r.ret
                    THEN LET t2 == DeleteChild(r.trie, node, char)
                         IN [trie |-> t2,
                             ret |-> /\ t2.children[node] = {}
                                     /\ ~t2.isEndOfWord[node]]
                    ELSE [trie |-> r.trie, ret |-> FALSE]

\* delete returning whether the word was found, not the helper's result.
deleteReturnsFound(t, word) ==
    [trie |-> helper(t, root, word, 0).trie, ret |-> searchWord(t, word)]

\* delete treating the root like any other node: when the helper reports the
\* root as removable, the root goes too.
deleteDropsRoot(t, word) ==
    LET r == helper(t, root, word, 0)
    IN IF r.ret
       THEN [trie |-> [children |-> [n \in {} |-> {}],
                       isEndOfWord |-> [n \in {} |-> FALSE]],
             ret |-> TRUE]
       ELSE r

delete(t, word) == helper(t, root, word, 0)

\* getRoot(): the root node's fields.
getRoot(t) == [children |-> t.children[root], isEndOfWord |-> t.isEndOfWord[root]]

\* ---------------------------------------------------------------- state

VARIABLES
    trie,     \* the Trie object: its nodes' children keys and flags
    stored,   \* history: the calls so far as set-add / set-remove on {}
    op,       \* history: the last call, its argument and what it returned
    pre,      \* history: the trie as it was when the last call began
    nCalls,   \* history: insert and delete calls so far
    run,      \* the Trie method call in progress, statement by statement
    completeWords,    \* TrieVisualizer: the completeWords state
    feedbackMessage,  \* TrieVisualizer: the feedbackMessage state
    timers,           \* TrieVisualizer: pending setTimeout callbacks
    handled,          \* history: the last event handler invoked
    nHandled,         \* history: event handlers invoked so far
    began             \* history: the component when the animation began

trieVars == <<trie, stored, op, pre, nCalls>>
stepVars == <<run>>
uiVars == <<completeWords, feedbackMessage, timers, handled, nHandled,
           began>>
vars == <<trieVars, stepVars, uiVars>>

\* No method call in progress.
Idle ==
    [name |-> "idle", word |-> <<>>, pc |-> "idle", chars |-> <<>>,
     currentNode |-> root, stack |-> <<>>, val |-> FALSE, steps |-> 0,
     t0 |-> NewTrie]

\* feedbackMessage: null, or a message about a word.
Feedback(kind, word) == [kind |-> kind, word |-> word]

\* No event handler invoked yet.
NoHandler == [name |-> "none", word |-> <<>>, accepted |-> FALSE]

\* The trie and completeWords as they were when a handler was invoked with
\* no timer pending, and the handleDelete calls accepted from then on, each
\* with the completeWords of the render it ran in.
Began(t, words, deletes) ==
    [trie |-> t, completeWords |-> words, deletes |-> deletes]

Call(name, word, ret) ==
    [name |-> name, word |-> word, ret |-> ret,
     afterInsert |-> op.name = "insert" /\ op.word = word]

Init ==
    /\ trie = NewTrie
    /\ stored = {}
    /\ op = [name |-> "new", word |-> <<>>, ret |-> FALSE, afterInsert |-> FALSE]
    /\ pre = NewTrie
    /\ nCalls = 0
    /\ run = Idle
    /\ completeWords = {}
    /\ feedbackMessage = Feedback("null", <<>>)
    /\ timers = <<>>
    /\ handled = NoHandler
    /\ nHandled = 0
    /\ began = Began(NewTrie, {}, <<>>)

Insert(word) ==
    /\ nCalls < MaxOps
    /\ trie' = insert(trie, word)
    /\ stored' = stored \cup {word}
    /\ op' = Call("insert", word, FALSE)
    /\ pre' = trie
    /\ nCalls' = nCalls + 1
    /\ UNCHANGED <<stepVars, uiVars>>

Delete(word) ==
    /\ nCalls < MaxOps
    /\ LET r == delete(trie, word)
       IN /\ trie' = r.trie
          /\ op' = Call("delete", word, r.ret)
    /\ stored' = stored \ {word}
    /\ pre' = trie
    /\ nCalls' = nCalls + 1
    /\ UNCHANGED <<stepVars, uiVars>>

\* searchWord walking as insert does: a missing child is created on the way.
SearchWordCreating(word) ==
    /\ op' = Call("searchWord", word, searchWord(trie, word))
    /\ pre' = trie
    /\ trie' = insertLoopNoMark(trie, root, StringIterator(word))
    /\ UNCHANGED <<stored, nCalls, stepVars, uiVars>>

SearchWord(word) ==
    /\ op' = Call("searchWord", word, searchWord(trie, word))
    /\ pre' = trie
    /\ UNCHANGED <<trie, stored, nCalls, stepVars, uiVars>>

StartsWith(prefix) ==
    /\ op' = Call("startsWith", prefix, startsWith(trie, prefix))
    /\ pre' = trie
    /\ UNCHANGED <<trie, stored, nCalls, stepVars, uiVars>>

Next ==
    \/ \E word \in Words : Insert(word)
    \/ \E word \in Words : Delete(word)
    \/ \E word \in Words : SearchWord(word)
    \/ \E prefix \in Words : StartsWith(prefix)

Spec == Init /\ [][Next]_vars

\* The same calls on words of BMP characters only: every character is one
\* code unit, so `for...of` and `word[index]` read the same keys.
BmpWords == {w \in Words : Len(StringIterator(w)) = Len(w)}

NextBmp ==
    \/ \E word \in BmpWords : Insert(word)
    \/ \E word \in BmpWords : Delete(word)
    \/ \E word \in BmpWords : SearchWord(word)
    \/ \E prefix \in BmpWords : StartsWith(prefix)

SpecBmp == Init /\ [][NextBmp]_vars

\* ------------------------------------------- the methods, step by step
\* The same four methods executed one statement group at a time: a loop
\* iteration of insert / searchWord / startsWith, an entry into the
\* recursive helper of delete, a return from it.  The frames of helper in
\* progress are kept on an explicit stack.  The trie is mutated in place
\* while a call runs, as in the code.

Methods == {"insert", "searchWord", "startsWith", "delete"}

\* An activation of helper(node, word, index).
Frame(node, index) == [node |-> node, index |-> index]

\* One pass through the head of the for...of loop: either the body runs for
\* the next code point, or the loop is over and the statement after it runs.
LoopBody(t, r) ==
    IF r.chars = <<>>
    THEN CASE r.name = "insert" ->
                [trie |-> [t EXCEPT !.isEndOfWord[r.currentNode] = TRUE],
                 run  |-> [r EXCEPT !.pc = "done"]]
           [] r.name = "searchWord" ->
                [trie |-> t,
                 run  |-> [r EXCEPT !.pc = "done",
                                    !.val = t.isEndOfWord[r.currentNode]]]
           [] OTHER ->
                [trie |-> t, run |-> [r EXCEPT !.pc = "done", !.val = TRUE]]
    ELSE LET char == Head(r.chars)
             has  == char \in t.children[r.currentNode]
             adv  == [r EXCEPT !.currentNode = Append(@, char),
                               !.chars = Tail(@)]
         IN  IF r.name = "insert"
             THEN [trie |-> IF has THEN t ELSE SetChild(t, r.currentNode, char),
                   run  |-> adv]
             ELSE IF has
                  THEN [trie |-> t, run |-> adv]
                  ELSE [trie |-> t,
                        run  |-> [r EXCEPT !.pc = "done", !.val = FALSE]]

\* HelperBody with the recursive call passing index instead of index + 1.
HelperBodySameIndex(t, r) ==
    LET top == r.stack[Len(r.stack)]
    IN  IF top.index = Len(r.word)
        THEN IF ~t.isEndOfWord[top.node]
             THEN [trie |-> t, run |-> [r EXCEPT !.pc = "return", !.val = FALSE]]
             ELSE LET t1 == [t EXCEPT !.isEndOfWord[top.node] = FALSE]
                  IN  [trie |-> t1,
                       run  |-> [r EXCEPT !.pc = "return",
                                          !.val = t1.children[top.node] = {}]]
        ELSE LET char == CharAt(r.word, top.index)
             IN  IF char \notin t.children[top.node]
                 THEN [trie |-> t,
                       run  |-> [r EXCEPT !.pc = "return", !.val = FALSE]]
                 ELSE [trie |-> t,
                       run  |-> [r EXCEPT !.stack =
                                   Append(@, Frame(Append(top.node, char),
                                                   top.index))]]

\* The top activation of helper runs from its first statement up to its
\* first return or up to its recursive call.
HelperBody(t, r) ==
    LET top == r.stack[Len(r.stack)]
    IN  IF top.index = Len(r.word)
        THEN IF ~t.isEndOfWord[top.node]
             THEN [trie |-> t, run |-> [r EXCEPT !.pc = "return", !.val = FALSE]]
             ELSE LET t1 == [t EXCEPT !.isEndOfWord[top.node] = FALSE]
                  IN  [trie |-> t1,
                       run  |-> [r EXCEPT !.pc = "return",
                                          !.val = t1.children[top.node] = {}]]
        ELSE LET char == CharAt(r.word, top.index)
             IN  IF char \notin t.children[top.node]
                 THEN [trie |-> t,
                       run  |-> [r EXCEPT !.pc = "return", !.val = FALSE]]
                 ELSE [trie |-> t,
                       run  |-> [r EXCEPT !.stack =
                                   Append(@, Frame(Append(top.node, char),
                                                   top.index + 1))]]

\* The top activation returns r.val.  Its caller is delete itself (the call
\* is over) or the activation below, which resumes after its recursive call
\* and runs to its own return.
HelperResume(t, r) ==
    LET rest == SubSeq(r.stack, 1, Len(r.stack) - 1)
    IN  IF rest = <<>>
        THEN [trie |-> t, run |-> [r EXCEPT !.stack = rest, !.pc = "done"]]
        ELSE LET caller == rest[Len(rest)]
                 char   == CharAt(r.word, caller.index)
             IN  IF r.val
                 THEN LET t2 == DeleteChild(t, caller.node, char)
                      IN  [trie |-> t2,
                           run  |-> [r EXCEPT
                                       !.stack = rest,
                                       !.val = /\ t2.children[caller.node] = {}
                                               /\ ~t2.isEndOfWord[caller.node]]]
                 ELSE [trie |-> t,
                       run  |-> [r EXCEPT !.stack = rest, !.val = FALSE]]

\* A method is called on the trie.
BeginCall(name, word) ==
    /\ run.pc = "idle"
    /\ name \in {"insert", "delete"} => nCalls < MaxOps
    /\ run' = [name        |-> name,
               word        |-> word,
               pc          |-> IF name = "delete" THEN "call" ELSE "loop",
               chars       |-> IF name = "delete" THEN <<>>
                                                  ELSE StringIterator(word),
               currentNode |-> root,
               stack       |-> IF name = "delete" THEN <<Frame(root, 0)>>
                                                  ELSE <<>>,
               val         |-> FALSE,
               steps       |-> 0,
               t0          |-> trie]
    /\ nCalls' = IF name \in {"insert", "delete"} THEN nCalls + 1 ELSE nCalls
    /\ UNCHANGED <<trie, stored, op, pre, uiVars>>

LoopStep ==
    /\ run.pc = "loop"
    /\ LET n == LoopBody(trie, run)
       IN  /\ trie' = n.trie
           /\ run' = [n.run EXCEPT !.steps = @ + 1]
    /\ UNCHANGED <<stored, op, pre, nCalls, uiVars>>

HelperCall ==
    /\ run.pc = "call"
    /\ LET n == HelperBody(trie, run)
       IN  /\ trie' = n.trie
           /\ run' = [n.run EXCEPT !.steps = @ + 1]
    /\ UNCHANGED <<stored, op, pre, nCalls, uiVars>>

HelperReturn ==
    /\ run.pc = "return"
    /\ LET n == HelperResume(trie, run)
       IN  /\ trie' = n.trie
           /\ run' = [n.run EXCEPT !.steps = @ + 1]
    /\ UNCHANGED <<stored, op, pre, nCalls, uiVars>>

\* The call has returned run.val to its caller.
EndCall ==
    /\ run.pc = "done"
    /\ run' = Idle
    /\ UNCHANGED <<trieVars, uiVars>>

StepCall == LoopStep \/ HelperCall \/ HelperReturn

NextStep ==
    \/ \E name \in Methods, word \in Words : BeginCall(name, word)
    \/ LoopStep
    \/ HelperCall
    \/ HelperReturn
    \/ EndCall

SpecStep == Init /\ [][NextStep]_vars

\* What the method as a whole computes from the trie the call began with.
CallResult(r) ==
    CASE r.name = "insert"     -> [trie |-> insert(r.t0, r.word), ret |-> FALSE]
      [] r.name = "searchWord" -> [trie |-> r.t0, ret |-> searchWord(r.t0, r.word)]
      [] r.name = "startsWith" -> [trie |-> r.t0, ret |-> startsWith(r.t0, r.word)]
      [] OTHER                 -> delete(r.t0, r.word)

\* The statement-by-statement execution ends where the method as a whole
\* ends.
StepAgreesWithCall ==
    run.pc = "done" => /\ trie = CallResult(run).trie
                       /\ run.val = CallResult(run).ret

\* ------------------------------------------------------- TrieVisualizer
\* The React component of src/src/components/Trie.tsx around one Trie
\* object: its state completeWords and feedbackMessage, its event handlers
\* handleInsert, handleSearch and handleDelete, and the setTimeout
\* callbacks they schedule, each callback with the values its closure
\* captured.  State that only drives the drawing (inputWord and the other
\* text fields, which are cleared and read back as the handler's argument,
\* animatingPath, activePath and its 3000 ms clearing effect,
\* _animationType, _countNodes, prefixMatches) is left out: no handler
\* reads it to decide what to do with the trie or with completeWords.

VisMaxLen == 2   \* typed words have at most VisMaxLen characters
VisMaxOps == 2   \* event handlers invoked in one behaviour

StartDelay == 100
InsertStepDelay == 500
InsertDoneDelay == 500
SearchStepDelay == 300
SearchDoneDelay == 500
DeleteStepDelay == 300
DeletePlanDelay == 500
DeleteShowDelay == 400
DeleteNodeDelay == 300

starterWords ==
    << <<"g","a","s">>, <<"g","a","r","l","i","c">>, <<"g","l","o","b","e">>,
       <<"g","l","o","w">>, <<"j","a","n","e">>, <<"j","a","z","z">>,
       <<"j","o","k","e">>, <<"p","a","s","s","i","v","e">>,
       <<"p","a","l","e">>, <<"p","o","k","e">>, <<"p","o","r","t">> >>

RECURSIVE InsertEach(_, _)
\* starterWords.forEach(word => newTrie.insert(word)).  Comparing t1 with t
\* has TLC evaluate each insert before the next one begins.
InsertEach(t, words) ==
    IF words = <<>> THEN t
    ELSE LET t1 == insert(t, Head(words))
         IN  IF t1 = t THEN InsertEach(t, Tail(words))
                       ELSE InsertEach(t1, Tail(words))

\* The characters typed into the text fields.
VisChars == {"g", "-"}

VisWords == UNION {[1..n -> VisChars] : n \in 0..VisMaxLen}

\* String.prototype.toLowerCase, on the characters of the model.
toLowerCase(s) == [i \in 1..Len(s) |-> IF s[i] = "G" THEN "g" ELSE s[i]]

\* What toLowerCase maps back to s.
toUpperCase(s) == [i \in 1..Len(s) |-> IF s[i] = "g" THEN "G" ELSE s[i]]

RECURSIVE trimStart(_)
trimStart(s) ==
    IF s # <<>> /\ Head(s) = " " THEN trimStart(Tail(s)) ELSE s

RECURSIVE trimEnd(_)
trimEnd(s) ==
    IF s # <<>> /\ s[Len(s)] = " " THEN trimEnd(SubSeq(s, 1, Len(s) - 1))
    ELSE s

\* String.prototype.trim
trim(s) == trimEnd(trimStart(s))

\* The contents of a text field when a handler runs: a typed word, a
\* starter word, or a typed word in upper case between blanks.
RawInputs ==
    VisWords
      \cup {starterWords[i] : i \in 1..Len(starterWords)}
      \cup {<<" ">> \o toUpperCase(w) \o <<" ">> : w \in VisWords}

\* String.prototype.substring(0, end)
substring(s, end) == SubSeq(s, 1, IF end < Len(s) THEN end ELSE Len(s))

\* String.prototype.startsWith
StringStartsWith(s, searchString) ==
    /\ Len(searchString) <= Len(s)
    /\ SubSeq(s, 1, Len(searchString)) = searchString

RECURSIVE EncodeNode(_)
\* The string spelled by the keys on the way from the root to node.
EncodeNode(node) ==
    IF node = <<>> THEN <<>> ELSE Head(node) \o EncodeNode(Tail(node))

RootId == <<"r", "o", "o", "t">>

RECURSIVE PathIds(_, _)
\* The ids pushed by the loop of buildPathForward after currentPath.
PathIds(currentPath, chars) ==
    IF chars = <<>> THEN <<>>
    ELSE LET next == currentPath \o <<"-">> \o Head(chars)
         IN  <<next>> \o PathIds(next, Tail(chars))

buildPathForward(word) ==
    <<RootId>> \o PathIds(RootId, StringIterator(toLowerCase(word)))

RECURSIVE Join(_, _)
\* Array.prototype.join of the code units of s
Join(s, separator) ==
    IF Len(s) <= 1 THEN s
    ELSE <<Head(s)>> \o separator \o Join(Tail(s), separator)

\* 'root-' + partial.split('').join('-')
NodeId(partial) == RootId \o <<"-">> \o Join(partial, <<"-">>)

\* (nodeId.match(/-/g) || []).length
charCount(nodeId) == Cardinality({i \in 1..Len(nodeId) : nodeId[i] = "-"})

RECURSIVE nodesToDelete(_, _, _)
\* The loop `for (let i = trimmedInput.length; i >= 1; i--)` from i on.
nodesToDelete(trimmedInput, words, i) ==
    IF i < 1 THEN <<>>
    ELSE LET partial == substring(trimmedInput, i)
             isNeededPrefix ==
                 \E word \in words : /\ word # trimmedInput
                                      /\ StringStartsWith(word, partial)
         IN  IF ~isNeededPrefix
             THEN <<NodeId(partial)>> \o nodesToDelete(trimmedInput, words, i - 1)
             ELSE <<>>

\* A setTimeout callback with what its closure captured: the handler's
\* type argument (handleSearch only), trimmedInput, path and completeWords,
\* the forEach index, nodesToDelete.
Callback(kind, type, word, path, index, words, nodes) ==
    [kind |-> kind, type |-> type, word |-> word, path |-> path,
     index |-> index, words |-> words, nodes |-> nodes]

\* setTimeout(cb, delay): timers are kept in the order in which they
\* expire, a new one after those that expire no later.
setTimeout(q, cb, delay) ==
    LET k == Cardinality({i \in 1..Len(q) : q[i].delay <= delay})
    IN  SubSeq(q, 1, k) \o <<[delay |-> delay, cb |-> cb]>>
                        \o SubSeq(q, k + 1, Len(q))

RECURSIVE setTimeoutEach(_, _, _, _)
\* array.forEach((_, index) => setTimeout(cb(index), index * delay)),
\* from index on; cbs[index + 1] is the callback of that index.
setTimeoutEach(q, cbs, index, delay) ==
    IF index >= Len(cbs) THEN q
    ELSE setTimeoutEach(setTimeout(q, cbs[index + 1], index * delay),
                        cbs, index + 1, delay)

\* The callback that runs next, and the other timers once the time it
\* waited for has passed.
Fired == Head(timers).cb
Elapsed ==
    [i \in 1..(Len(timers) - 1) |->
        [timers[i + 1] EXCEPT !.delay = @ - Head(timers).delay]]

TimerFires(kind) == timers # <<>> /\ Head(timers).cb.kind = kind

Handled(name, word, accepted) ==
    [name |-> name, word |-> word, accepted |-> accepted]

untouched == <<stored, op, pre, nCalls, run>>

\* began after a handler call that accepted the handleDelete calls
\* `deletes` (none or one).
Remember(deletes) ==
    IF timers = <<>> THEN Began(trie, completeWords, deletes)
    ELSE [began EXCEPT !.deletes = @ \o deletes]

handleInsert(inputWord) ==
    LET trimmedInput == toLowerCase(trim(inputWord))
    IN  /\ nHandled' = nHandled + 1
        /\ IF trim(inputWord) = <<>>
           THEN /\ feedbackMessage' = Feedback("enterInsert", <<>>)
                /\ handled' = Handled("handleInsert", trimmedInput, FALSE)
                /\ UNCHANGED timers
           ELSE IF trimmedInput \in completeWords
           THEN /\ feedbackMessage' = Feedback("exists", trimmedInput)
                /\ handled' = Handled("handleInsert", trimmedInput, FALSE)
                /\ UNCHANGED timers
           ELSE /\ timers' = setTimeout(timers,
                                Callback("insertStart", "", trimmedInput,
                                         buildPathForward(trimmedInput), 0,
                                         completeWords, <<>>),
                                StartDelay)
                /\ handled' = Handled("handleInsert", trimmedInput, TRUE)
                /\ UNCHANGED feedbackMessage
        /\ began' = Remember(<<>>)
        /\ UNCHANGED <<trie, completeWords, untouched>>

InsertStart ==
    /\ TimerFires("insertStart")
    /\ timers' = setTimeoutEach(Elapsed,
                    [i \in 1..Len(Fired.path) |->
                        [Fired EXCEPT !.kind = "insertStep", !.index = i - 1]],
                    0, InsertStepDelay)
    /\ UNCHANGED <<trie, completeWords, feedbackMessage, handled, nHandled,
                   began, untouched>>

InsertStep ==
    /\ TimerFires("insertStep")
    /\ LET index == Fired.index
           trimmedInput == Fired.word
           partialWord == substring(trimmedInput, index)
           t1 == IF index > 0 THEN insert(trie, partialWord) ELSE trie
       IN  IF index = Len(Fired.path) - 1
           THEN /\ trie' = insert(t1, trimmedInput)
                /\ completeWords' = completeWords \cup {trimmedInput}
                /\ timers' = setTimeout(Elapsed,
                                [Fired EXCEPT !.kind = "insertDone"],
                                InsertDoneDelay)
           ELSE /\ trie' = t1
                /\ timers' = Elapsed
                /\ UNCHANGED completeWords
    /\ UNCHANGED <<feedbackMessage, handled, nHandled, began, untouched>>

InsertDone ==
    /\ TimerFires("insertDone")
    /\ feedbackMessage' = Feedback("inserted", Fired.word)
    /\ timers' = Elapsed
    /\ UNCHANGED <<trie, completeWords, handled, nHandled, began,
                   untouched>>

\* The Enter key of the search field calls handleSearch("word"), the only
\* call of handleSearch in the component.
SearchTypes == {"word"}

handleSearch(type, searchInput) ==
    LET trimmedInput == toLowerCase(trim(searchInput))
    IN  /\ nHandled' = nHandled + 1
        /\ IF trim(searchInput) = <<>>
           THEN /\ feedbackMessage' = Feedback("enterSearch", <<>>)
                /\ handled' = Handled("handleSearch", trimmedInput, FALSE)
                /\ UNCHANGED timers
           ELSE /\ timers' = setTimeout(timers,
                                Callback("searchStart", type, trimmedInput,
                                         <<>>, 0, completeWords, <<>>),
                                StartDelay)
                /\ handled' = Handled("handleSearch", trimmedInput, TRUE)
                /\ UNCHANGED feedbackMessage
        /\ began' = Remember(<<>>)
        /\ UNCHANGED <<trie, completeWords, untouched>>

SearchStart ==
    /\ TimerFires("searchStart")
    /\ LET path == buildPathForward(Fired.word)
       IN  timers' = setTimeoutEach(Elapsed,
                        [i \in 1..Len(path) |->
                            [Fired EXCEPT !.kind = "searchStep", !.path = path,
                                          !.index = i - 1]],
                        0, SearchStepDelay)
    /\ UNCHANGED <<trie, completeWords, feedbackMessage, handled, nHandled,
                   began, untouched>>

SearchStep ==
    /\ TimerFires("searchStep")
    /\ timers' = IF Fired.index = Len(Fired.path) - 1
                 THEN setTimeout(Elapsed, [Fired EXCEPT !.kind = "searchDone"],
                                 SearchDoneDelay)
                 ELSE Elapsed
    /\ UNCHANGED <<trie, completeWords, feedbackMessage, handled, nHandled,
                   began, untouched>>

SearchDone ==
    /\ TimerFires("searchDone")
    /\ LET trimmedInput == Fired.word
       IN  feedbackMessage' =
             IF Fired.type = "word"
             THEN IF searchWord(trie, trimmedInput)
                  THEN Feedback("found", trimmedInput)
                  ELSE Feedback("notFound", trimmedInput)
             ELSE IF startsWith(trie, trimmedInput)
                  THEN Feedback("isPrefix", trimmedInput)
                  ELSE Feedback("notPrefix", trimmedInput)
    /\ timers' = Elapsed
    /\ UNCHANGED <<trie, completeWords, handled, nHandled, began,
                   untouched>>

handleDelete(deleteInput) ==
    LET trimmedInput == toLowerCase(trim(deleteInput))
    IN  /\ nHandled' = nHandled + 1
        /\ IF trim(deleteInput) = <<>>
           THEN /\ feedbackMessage' = Feedback("enterDelete", <<>>)
                /\ handled' = Handled("handleDelete", trimmedInput, FALSE)
                /\ UNCHANGED timers
           ELSE IF trimmedInput \notin completeWords
           THEN /\ feedbackMessage' = Feedback("notComplete", trimmedInput)
                /\ handled' = Handled("handleDelete", trimmedInput, FALSE)
                /\ UNCHANGED timers
           ELSE /\ timers' = setTimeout(timers,
                                Callback("deleteStart", "", trimmedInput,
                                         buildPathForward(trimmedInput), 0,
                                         completeWords, <<>>),
                                StartDelay)
                /\ handled' = Handled("handleDelete", trimmedInput, TRUE)
                /\ UNCHANGED feedbackMessage
        /\ began' =
             IF trim(deleteInput) # <<>> /\ trimmedInput \in completeWords
             THEN Remember(<<[word |-> trimmedInput, words |-> completeWords]>>)
             ELSE Remember(<<>>)
        /\ UNCHANGED <<trie, completeWords, untouched>>

DeleteStart ==
    /\ TimerFires("deleteStart")
    /\ timers' = setTimeoutEach(Elapsed,
                    [i \in 1..Len(Fired.path) |->
                        [Fired EXCEPT !.kind = "deleteStep", !.index = i - 1]],
                    0, DeleteStepDelay)
    /\ UNCHANGED <<trie, completeWords, feedbackMessage, handled, nHandled,
                   began, untouched>>

DeleteStep ==
    /\ TimerFires("deleteStep")
    /\ timers' = IF Fired.index = Len(Fired.path) - 1
                 THEN setTimeout(Elapsed, [Fired EXCEPT !.kind = "deletePlan"],
                                 DeletePlanDelay)
                 ELSE Elapsed
    /\ UNCHANGED <<trie, completeWords, feedbackMessage, handled, nHandled,
                   began, untouched>>

\* The callback that fills nodesToDelete from the completeWords of the
\* render in which handleDelete ran, and schedules one timer per node id.
DeletePlan ==
    /\ TimerFires("deletePlan")
    /\ LET trimmedInput == Fired.word
           nodes == nodesToDelete(trimmedInput, Fired.words, Len(trimmedInput))
       IN  timers' = setTimeoutEach(Elapsed,
                        [i \in 1..Len(nodes) |->
                            [Fired EXCEPT !.kind = "deleteShow",
                                          !.index = i - 1, !.nodes = nodes]],
                        0, DeleteShowDelay)
    /\ UNCHANGED <<trie, completeWords, feedbackMessage, handled, nHandled,
                   began, untouched>>

DeleteShow ==
    /\ TimerFires("deleteShow")
    /\ timers' = setTimeout(Elapsed, [Fired EXCEPT !.kind = "deleteNode"],
                            DeleteNodeDelay)
    /\ UNCHANGED <<trie, completeWords, feedbackMessage, handled, nHandled,
                   began, untouched>>

DeleteNode ==
    /\ TimerFires("deleteNode")
    /\ LET trimmedInput == Fired.word
           deleteIndex == Fired.index
           nodeId == Fired.nodes[deleteIndex + 1]
           partial == substring(trimmedInput, charCount(nodeId))
       IN  /\ trie' = delete(trie, partial).trie
           /\ IF deleteIndex = Len(Fired.nodes) - 1
              THEN /\ completeWords' = completeWords \ {trimmedInput}
                   /\ feedbackMessage' = Feedback("deleted", trimmedInput)
              ELSE UNCHANGED <<completeWords, feedbackMessage>>
    /\ timers' = Elapsed
    /\ UNCHANGED <<handled, nHandled, began, untouched>>

RECURSIVE DeleteEach(_, _)
\* allWords.forEach(word => trie.delete(word)).  completeWords is kept as a
\* set, so the order of Array.from(completeWords) is not known here; the
\* words are taken in some order, and ResetOrderIrrelevant says that the
\* outcome is the same in every order.  Comparing t1 with t has TLC
\* evaluate each delete before the next one begins.
DeleteEach(t, words) ==
    IF words = {} THEN t
    ELSE LET word == CHOOSE w \in words : TRUE
             t1 == delete(t, word).trie
         IN  IF t1 = t THEN DeleteEach(t, words \ {word})
                       ELSE DeleteEach(t1, words \ {word})

handleReset ==
    /\ nHandled' = nHandled + 1
    /\ trie' = DeleteEach(trie, completeWords)
    /\ completeWords' = {}
    /\ feedbackMessage' = Feedback("reset", <<>>)
    /\ handled' = Handled("handleReset", <<>>, TRUE)
    /\ began' = Remember(<<>>)
    /\ UNCHANGED <<timers, untouched>>

\* The component after its first render.
InitVis ==
    /\ trie = InsertEach(NewTrie, starterWords)
    /\ stored = {}
    /\ op = [name |-> "new", word |-> <<>>, ret |-> FALSE, afterInsert |-> FALSE]
    /\ pre = NewTrie
    /\ nCalls = 0
    /\ run = Idle
    /\ completeWords = {starterWords[i] : i \in 1..Len(starterWords)}
    /\ feedbackMessage = Feedback("null", <<>>)
    /\ timers = <<>>
    /\ handled = NoHandler
    /\ nHandled = 0
    /\ began = Began(InsertEach(NewTrie, starterWords),
                     {starterWords[i] : i \in 1..Len(starterWords)}, <<>>)

\* No timer is pending.
Quiet == timers = <<>>

\* The user starts an operation when the animation of the one before is
\* over.
InsertWhenQuiet(inputWord) ==
    Quiet /\ nHandled < VisMaxOps /\ handleInsert(inputWord)
SearchWhenQuiet(type, searchInput) ==
    Quiet /\ nHandled < VisMaxOps /\ handleSearch(type, searchInput)
DeleteWhenQuiet(deleteInput) ==
    Quiet /\ nHandled < VisMaxOps /\ handleDelete(deleteInput)
ResetWhenQuiet ==
    Quiet /\ nHandled < VisMaxOps /\ handleReset

\* Whichever word handleReset deletes first, the trie it ends with is the
\* same.
ResetOrderIrrelevant ==
    \A word \in completeWords :
        DeleteEach(delete(trie, word).trie, completeWords \ {word})
            = DeleteEach(trie, completeWords)

NextVis ==
    \/ \E inputWord \in RawInputs : InsertWhenQuiet(inputWord)
    \/ \E type \in SearchTypes, searchInput \in RawInputs :
            SearchWhenQuiet(type, searchInput)
    \/ \E deleteInput \in RawInputs : DeleteWhenQuiet(deleteInput)
    \/ ResetWhenQuiet
    \/ InsertStart
    \/ InsertStep
    \/ InsertDone
    \/ SearchStart
    \/ SearchStep
    \/ SearchDone
    \/ DeleteStart
    \/ DeleteStep
    \/ DeletePlan
    \/ DeleteShow
    \/ DeleteNode

SpecVis == InitVis /\ [][NextVis]_vars

RECURSIVE deleteEachNode(_, _, _)
\* The trie after the timers of nodesToDelete.forEach have all fired:
\* trie.delete on the prefix recovered from each node id, in order.
deleteEachNode(t, trimmedInput, nodes) ==
    IF nodes = <<>> THEN t
    ELSE LET partial == substring(trimmedInput, charCount(Head(nodes)))
             t1 == delete(t, partial).trie
         IN  IF t1 = t THEN deleteEachNode(t, trimmedInput, Tail(nodes))
                       ELSE deleteEachNode(t1, trimmedInput, Tail(nodes))

\* handleDelete on a word of completeWords, invoked with no timer pending
\* and left alone until its last timer has fired: what it makes of the trie
\* and of completeWords.
deleteCompleted(t, words, trimmedInput) ==
    LET nodes == nodesToDelete(trimmedInput, words, Len(trimmedInput))
    IN  [trie |-> deleteEachNode(t, trimmedInput, nodes),
         completeWords |-> IF nodes = <<>> THEN words
                           ELSE words \ {trimmedInput}]

\* deleteCompleted is what the timer chain of one handleDelete does.
DeleteCompletedAgrees ==
    (Quiet /\ Len(began.deletes) = 1) =>
        LET done == deleteCompleted(began.trie, began.completeWords,
                                    began.deletes[1].word)
        IN  /\ trie = done.trie
            /\ completeWords = done.completeWords

\* ------------------------------------------- overlapping handleDelete
\* The user types up to OverlapMaxInserts new words, each when the
\* animation before is over, then deletes a word and, at any moment from
\* then on, up to OverlapMaxDeletes - 1 more.

OverlapMaxLen == 2       \* typed words have at most OverlapMaxLen characters
OverlapMaxInserts == 2   \* handleInsert calls before the first handleDelete
OverlapMaxDeletes == 2   \* handleDelete calls
OverlapStarters == 2     \* starter words that are typed into the delete field

OverlapChars == {"x", "g"}

OverlapWords == UNION {[1..n -> OverlapChars] : n \in 1..OverlapMaxLen}

OverlapDeleteInputs ==
    OverlapWords \cup {starterWords[i] : i \in 1..OverlapStarters}

InsertBeforeDeletes(inputWord) ==
    /\ Quiet
    /\ handled.name # "handleDelete"
    /\ nHandled < OverlapMaxInserts
    /\ handleInsert(inputWord)

FirstDelete(deleteInput) ==
    /\ Quiet
    /\ handled.name # "handleDelete"
    /\ handleDelete(deleteInput)

\* handleDelete invoked on a word of completeWords while timers of the
\* handleDelete before are pending.
DeleteWhileBusy(deleteInput) ==
    /\ ~Quiet
    /\ handled.name = "handleDelete"
    /\ Len(began.deletes) < OverlapMaxDeletes
    /\ deleteInput \in completeWords
    /\ handleDelete(deleteInput)

NextOverlap ==
    \/ \E inputWord \in OverlapWords : InsertBeforeDeletes(inputWord)
    \/ \E deleteInput \in OverlapDeleteInputs : FirstDelete(deleteInput)
    \/ \E deleteInput \in OverlapDeleteInputs : DeleteWhileBusy(deleteInput)
    \/ InsertStart
    \/ InsertStep
    \/ InsertDone
    \/ DeleteStart
    \/ DeleteStep
    \/ DeletePlan
    \/ DeleteShow
    \/ DeleteNode

SpecOverlap == InitVis /\ [][NextOverlap]_vars

\* --------------------------------------------------------------- claims

\* The words searchWord finds in t ("stored" words: the path exists and its
\* last node is isEndOfWord).
StoredWords(t) == {w \in Words : searchWord(t, w)}

\* The node insert and searchWord reach for a word.
TerminalNode(word) == StringIterator(word)

\* p is a prefix of w, character by character.
IsPrefix(p, w) == IsPathPrefix(StringIterator(p), StringIterator(w))

\* C1: after any sequence of insert and delete calls on a new Trie,
\* searchWord(w) is true exactly for the words w of the set obtained by
\* running the same calls as set-add and set-remove on the empty set.
C1_SearchWordMatchesAbstractSet ==
    \A w \in Words : searchWord(trie, w) <=> w \in stored

\* C2: right after insert(w), searchWord(w) is true, for every word w (the
\* empty word too) and from every reachable trie.
C2_SearchWordAfterInsert ==
    op.name = "insert" => searchWord(trie, op.word)

\* An insert of a word that was not stored and needed new nodes has run.
C2_Witness ==
    /\ op.name = "insert"
    /\ ~searchWord(pre, op.word)
    /\ Nodes(trie) # Nodes(pre)

\* C3: delete(w) returns true for every word w stored when it is called.
C3_DeleteStoredReturnsTrue ==
    (op.name = "delete" /\ searchWord(pre, op.word)) => op.ret

\* C4: when w is not stored (its path is incomplete, or its last node is
\* not isEndOfWord), delete(w) returns false and leaves nodes, edges and
\* flags as they were.
C4_DeleteAbsentChangesNothing ==
    (op.name = "delete" /\ ~searchWord(pre, op.word))
        => (op.ret = FALSE /\ trie = pre)

\* delete has run on a non-empty word whose whole path existed, unflagged.
C4_Witness ==
    /\ op.name = "delete"
    /\ op.word # <<>>
    /\ TerminalNode(op.word) \in Nodes(pre)
    /\ ~pre.isEndOfWord[TerminalNode(op.word)]

\* C5: after insert(w) directly followed by delete(w), searchWord(w) is
\* false, for every word w and from every reachable trie.
C5_InsertThenDeleteClearsWord ==
    (op.name = "delete" /\ op.afterInsert) => ~searchWord(trie, op.word)

\* C6: every node but the root is isEndOfWord or has a descendant that is;
\* no childless node other than the root has isEndOfWord false.
C6_NoDanglingNode ==
    \A n \in Nodes(trie) \ {root} :
        /\ \/ trie.isEndOfWord[n]
           \/ \E m \in Nodes(trie) :
                m # n /\ IsPathPrefix(n, m) /\ trie.isEndOfWord[m]
        /\ trie.children[n] = {} => trie.isEndOfWord[n]

\* A delete has pruned nodes and left other nodes in place.
C6_Witness ==
    /\ op.name = "delete"
    /\ Nodes(trie) # Nodes(pre)
    /\ Nodes(trie) # {root}

\* C7: delete(w) changes searchWord(v) for no word v other than w; a word
\* still stored keeps every non-empty prefix answering startsWith.
C7_DeleteKeepsOtherWords ==
    op.name = "delete" =>
        \A v \in Words \ {op.word} :
            /\ searchWord(trie, v) = searchWord(pre, v)
            /\ searchWord(trie, v) =>
                \A p \in Words \ {<<>>} : IsPrefix(p, v) => startsWith(trie, p)

\* A delete has removed w and pruned nodes while another stored word that
\* begins with the same character stayed.
C7_Witness ==
    /\ op.name = "delete"
    /\ searchWord(pre, op.word)
    /\ ~searchWord(trie, op.word)
    /\ Nodes(trie) # Nodes(pre)
    /\ \E v \in StoredWords(trie) :
        /\ v # <<>>
        /\ Head(StringIterator(v)) = Head(StringIterator(op.word))

\* C8: for every non-empty p, startsWith(p) is true exactly when p is a
\* prefix of a word searchWord finds; once the last word under a prefix
\* has been removed, the prefix is no longer reported.
C8_StartsWithIffPrefixOfStoredWord ==
    \A p \in Words \ {<<>>} :
        startsWith(trie, p) <=> \E w \in StoredWords(trie) : IsPrefix(p, w)

\* A delete has made some prefix stop answering startsWith while other
\* words stay stored.
C8_Witness ==
    /\ op.name = "delete"
    /\ StoredWords(trie) # {}
    /\ \E p \in Words \ {<<>>} : startsWith(pre, p) /\ ~startsWith(trie, p)

\* C9: right after insert(w), startsWith(p) is true for every non-empty
\* prefix p of w.
C9_StartsWithAfterInsert ==
    op.name = "insert" =>
        \A p \in Words \ {<<>>} : IsPrefix(p, op.word) => startsWith(trie, p)

\* An insert of a word of two or more characters has created its path from
\* the first character on.
C9_Witness ==
    /\ op.name = "insert"
    /\ Len(StringIterator(op.word)) >= 2
    /\ \A p \in Words \ {<<>>} : IsPrefix(p, op.word) => ~startsWith(pre, p)

\* C10: when w is stored and its last node has a child, delete(w) removes
\* no node and no edge and changes one flag only: isEndOfWord of w's last
\* node becomes false.
C10_DeleteInnerWordClearsOneFlag ==
    (/\ op.name = "delete"
     /\ searchWord(pre, op.word)
     /\ pre.children[TerminalNode(op.word)] # {})
        => trie = [pre EXCEPT !.isEndOfWord[TerminalNode(op.word)] = FALSE]

\* The nodes on the path of a word: one per prefix, the root included.
PathNodes(word) ==
    {SubSeq(TerminalNode(word), 1, k) : k \in 0..Len(TerminalNode(word))}

\* q of C11: the longest proper prefix of the word whose node is
\* isEndOfWord or has a child off the word's path; the root if there is none.
LastNeededNode(t, word) ==
    LET path == TerminalNode(word)
        needed == {k \in 0..(Len(path) - 1) :
                     LET n == SubSeq(path, 1, k)
                     IN t.isEndOfWord[n] \/ t.children[n] \ {path[k + 1]} # {}}
    IN IF needed = {}
       THEN root
       ELSE SubSeq(path, 1, CHOOSE k \in needed : \A j \in needed : j <= k)

\* t without the nodes of the word's path below q (and the edge to them),
\* the flag of the word's last node cleared.
WithoutSuffixChain(t, word) ==
    LET path == TerminalNode(word)
        q == LastNeededNode(t, word)
        gone == {n \in PathNodes(word) : Len(n) > Len(q)}
        keep == Nodes(t) \ gone
    IN [children |->
            [n \in keep |->
                IF n = q /\ gone # {}
                THEN t.children[n] \ {path[Len(q) + 1]}
                ELSE t.children[n]],
        isEndOfWord |->
            [n \in keep |-> IF n = path THEN FALSE ELSE t.isEndOfWord[n]]]

\* C11: when w is stored and its last node has no child, delete(w) removes
\* exactly the nodes of the prefixes of w longer than q (q as above) and
\* leaves every other node, edge and flag as it was.  (For the empty word
\* nothing is removed and the root's flag is cleared.)
C11_DeleteLeafWordRemovesSuffixChain ==
    (/\ op.name = "delete"
     /\ searchWord(pre, op.word)
     /\ pre.children[TerminalNode(op.word)] = {})
        => trie = WithoutSuffixChain(pre, op.word)

\* C12: insert(w) of a word already stored leaves the trie exactly as it
\* was, and searchWord(w) stays true.
C12_InsertStoredWordChangesNothing ==
    (op.name = "insert" /\ searchWord(pre, op.word))
        => (trie = pre /\ searchWord(trie, op.word))

\* insert has run on a stored word that has nodes below its last node.
C12_Witness ==
    /\ op.name = "insert"
    /\ searchWord(pre, op.word)
    /\ op.word # <<>>
    /\ pre.children[TerminalNode(op.word)] # {}

\* C13: insert(w) removes no node and no edge and clears no flag: every
\* node that was there is still there, with its children and with the same
\* flag unless it is w's last node, which is true; every node added lies on
\* the path of w.
C13_InsertOnlyAddsOnPath ==
    op.name = "insert" =>
        /\ \A n \in Nodes(pre) :
            /\ n \in Nodes(trie)
            /\ pre.children[n] \subseteq trie.children[n]
            /\ n # TerminalNode(op.word)
                => trie.isEndOfWord[n] = pre.isEndOfWord[n]
        /\ trie.isEndOfWord[TerminalNode(op.word)]
        /\ \A n \in Nodes(trie) \ Nodes(pre) : n \in PathNodes(op.word)

\* insert has added nodes below a node that already had another child.
C13_Witness ==
    /\ op.name = "insert"
    /\ \E n \in Nodes(pre) :
        /\ pre.children[n] # {}
        /\ trie.children[n] # pre.children[n]

\* C14: searchWord and startsWith change nothing: nodes, edges and flags
\* after the call are those before it, whatever the call returns.
C14_QueriesChangeNothing ==
    op.name \in {"searchWord", "startsWith"} => trie = pre

\* A query has returned false on a word whose first character is in the
\* trie (the walk went some way down before it gave up or read the flag).
C14_Witness ==
    /\ op.name \in {"searchWord", "startsWith"}
    /\ ~op.ret
    /\ op.word # <<>>
    /\ Head(StringIterator(op.word)) \in trie.children[root]

\* C15: the root is there in every reachable state; no call removes it,
\* not a delete that removes the last stored word nor delete of the empty
\* word, so getRoot always has the root to return.
C15_RootAlwaysExists ==
    /\ root \in Nodes(trie)
    /\ getRoot(trie) \in [children : SUBSET trie.children[root], isEndOfWord : BOOLEAN]
    /\ \A n \in Nodes(trie) \ {root} :
        /\ SubSeq(n, 1, Len(n) - 1) \in Nodes(trie)
        /\ n[Len(n)] \in trie.children[SubSeq(n, 1, Len(n) - 1)]

\* A delete has removed the last stored word: the helper reported the root
\* itself as removable.
C15_Witness ==
    /\ op.name = "delete"
    /\ op.ret
    /\ Nodes(pre) # {root}
    /\ trie = NewTrie

\* C16: insert of the empty word creates no node and sets isEndOfWord on
\* the root and on nothing else; searchWord of the empty word is then true.
C16_InsertEmptyWordMarksRoot ==
    (op.name = "insert" /\ op.word = <<>>)
        => /\ trie = [pre EXCEPT !.isEndOfWord[root] = TRUE]
           /\ searchWord(trie, <<>>)

\* The empty word has been inserted into a trie that had nodes and an
\* unflagged root.
C16_Witness ==
    /\ op.name = "insert"
    /\ op.word = <<>>
    /\ ~pre.isEndOfWord[root]
    /\ Nodes(pre) # {root}

\* C18: delete(w) returns true exactly when w was stored before the call
\* and the call leaves the root with no children and isEndOfWord false.
C18_DeleteReturnsRootPruneFlag ==
    op.name = "delete" =>
        (op.ret <=> (searchWord(pre, op.word) /\ trie = NewTrie))

\* A delete has removed a stored word and returned false, other words
\* being left.
C18_Witness ==
    /\ op.name = "delete"
    /\ searchWord(pre, op.word)
    /\ ~searchWord(trie, op.word)
    /\ ~op.ret

\* C17: each of insert, searchWord, startsWith and delete terminates on every
\* word in every reachable trie without an error: while a call is running
\* its next statement can always be executed, and it has executed at most
\* Len(word) + 1 loop passes, or at most Len(word) + 1 entries into helper
\* and as many returns.  The recursion of delete is never deeper than one
\* activation per code unit of the word plus the first one, and when delete
\* returns no activation is left.
C17_CallsTerminate ==
    /\ run.pc \in {"loop", "call", "return"} => ENABLED StepCall
    /\ run.pc = "loop" => run.steps + Len(run.chars) <= Len(StringIterator(run.word))
    /\ run.name \in {"insert", "searchWord", "startsWith"} =>
            run.steps <= Len(StringIterator(run.word)) + 1
    /\ run.name = "delete" => run.steps <= 2 * (Len(run.word) + 1)
    /\ Len(run.stack) <= Len(run.word) + 1
    /\ \A i \in 1..Len(run.stack) :
            /\ run.stack[i].index = i - 1
            /\ Len(run.stack[i].node) = i - 1
    /\ run.pc = "done" => run.stack = <<>>

\* A delete that went down one activation per code unit of a word of two
\* or more units and has unwound completely.
C17_Witness ==
    /\ run.name = "delete"
    /\ run.pc = "done"
    /\ Len(run.word) >= 2
    /\ run.steps = 2 * (Len(run.word) + 1)
    /\ run.stack = <<>>

\* Every word searchWord could find in t, and every word of words.
Candidates(t, words) ==
    words \cup {EncodeNode(node) : node \in Nodes(t)}

\* C19: in the visualizer, whenever no timer is pending, the words w with
\* trie.searchWord(w) true are exactly the words of completeWords.
C19_SearchWordMatchesCompleteWords ==
    Quiet => \A w \in Candidates(trie, completeWords) :
                searchWord(trie, w) <=> w \in completeWords

\* C20: in the visualizer, when handleDelete(w) was invoked with w in
\* completeWords and no other handler running, and every timer it scheduled
\* has fired, w is not in completeWords, trie.searchWord(w) is false and the
\* success feedback is set.
C20_HandleDeleteCompletes ==
    (handled.name = "handleDelete" /\ handled.accepted /\ Quiet) =>
        /\ handled.word \notin completeWords
        /\ ~searchWord(trie, handled.word)
        /\ feedbackMessage = Feedback("deleted", handled.word)

\* C21: in the visualizer, after handleReset has run with no timer pending,
\* the trie is the root alone with isEndOfWord false, and completeWords is
\* empty.
C21_ResetLeavesBareRoot ==
    handled.name = "handleReset" =>
        /\ trie = NewTrie
        /\ completeWords = {}

\* C22: in the visualizer, when two handleDelete calls on distinct words of
\* completeWords overlap (the second is invoked before the first has
\* updated completeWords) and all timers have fired, the trie and
\* completeWords are what the two deletions give when each runs to
\* completion before the next, and every node of the trie spells a prefix
\* of a word of completeWords.
C22_OverlappingDeletesAsSequential ==
    (/\ Quiet
     /\ Len(began.deletes) = 2
     /\ began.deletes[1].word # began.deletes[2].word
     /\ began.deletes[1].word \in began.deletes[2].words) =>
        LET first  == deleteCompleted(began.trie, began.completeWords,
                                      began.deletes[1].word)
            second == deleteCompleted(first.trie, first.completeWords,
                                      began.deletes[2].word)
        IN  /\ trie = second.trie
            /\ completeWords = second.completeWords
            /\ \A node \in Nodes(trie) :
                  \E w \in completeWords : StringStartsWith(w, EncodeNode(node))

\* The child keys the helper of delete looks up when it goes down the whole
\* word: word[index] for index = 0 .. word.length - 1.
deleteKeys(word) == [i \in 1..Len(word) |-> CharAt(word, i - 1)]

\* C23: for every string w, delete(w) looks up the same sequence of child
\* keys that insert(w) and searchWord(w) follow, and delete(w) directly
\* after insert(w) leaves searchWord(w) false, also when w has a character
\* of two UTF-16 code units.
C23_DeleteFollowsInsertKeys ==
    op.name = "delete" =>
        /\ deleteKeys(op.word) = StringIterator(op.word)
        /\ op.afterInsert => ~searchWord(trie, op.word)

\* The prefix of trimmedInput from which entry k of nodesToDelete was built:
\* the loop pushes one id per i = length, length - 1, ... until it breaks.
queuedPartial(trimmedInput, k) ==
    substring(trimmedInput, Len(trimmedInput) - k + 1)

\* C24: in handleDelete, for every node id queued in nodesToDelete, the
\* prefix recovered from the id (trimmedInput.substring(0, number of '-' in
\* the id)) is the prefix the id was built from, so that trie.delete is
\* called on exactly the queued prefixes, also for a word containing '-'.
C24_NodeIdRecoversPartial ==
    \A i \in 1..Len(timers) :
        LET cb == timers[i].cb
        IN  cb.kind \in {"deleteShow", "deleteNode"} =>
                \A k \in 1..Len(cb.nodes) :
                    /\ cb.nodes[k] = NodeId(queuedPartial(cb.word, k))
                    /\ substring(cb.word, charCount(cb.nodes[k]))
                           = queuedPartial(cb.word, k)

====
